---- MODULE Spec2Model ----
(***************************************************************************)
(* Model of the rubbish classifier (src/minimal-rubbish-classifier.js) and *)
(* of the HTTP handlers that call it (api-server.js, quoted in             *)
(* src/.kiro/specs/rubbish-classifier.md).                                  *)
(*                                                                         *)
(* The source file holds two versions of class MinimalRubbishClassifier:   *)
(*   "category"  lines  15-160  (getCategory only, fixed fallback)          *)
(*   "points"    lines 174-381  (getCategory and getPoints, random fallback)*)
(* Both are modelled; `variant` says which one an instance was built from. *)
(*                                                                         *)
(* Strings are TLA+ strings; a JavaScript value that may be undefined is a *)
(* record [present, text].  Point values and weights are fixed-point:      *)
(* weights in tenths of a gram, multipliers in thousandths of a point per  *)
(* gram, results in tenths of a point.                                     *)
(***************************************************************************)
EXTENDS Integers, Sequences, FiniteSets, TLC

(***************************************************************************)
(* JavaScript string primitives used by the classifier.                    *)
(***************************************************************************)
Char(s, i) == SubSeq(s, i, i)

\* String.prototype.includes
includes(s, k) ==
    \E i \in 1..(Len(s) - Len(k) + 1) : SubSeq(s, i, i + Len(k) - 1) = k

\* String.prototype.startsWith
startsWith(s, p) == Len(s) >= Len(p) /\ SubSeq(s, 1, Len(p)) = p

UpperChars == "ABCDEFGHIJKLMNOPQRSTUVWXYZ"
LowerChars == "abcdefghijklmnopqrstuvwxyz"

LowerChar(c) ==
    IF \E i \in 1..Len(UpperChars) : Char(UpperChars, i) = c
    THEN Char(LowerChars, CHOOSE i \in 1..Len(UpperChars) : Char(UpperChars, i) = c)
    ELSE c

\* String.prototype.toLowerCase
RECURSIVE toLowerCase(_)
toLowerCase(s) ==
    IF Len(s) = 0 THEN ""
    ELSE LowerChar(Char(s, 1)) \o toLowerCase(SubSeq(s, 2, Len(s)))

IsSpace(c) == c = " " \/ c = "\t" \/ c = "\n"

RECURSIVE trimStart(_)
trimStart(s) ==
    IF Len(s) > 0 /\ IsSpace(Char(s, 1)) THEN trimStart(SubSeq(s, 2, Len(s))) ELSE s

RECURSIVE trimEnd(_)
trimEnd(s) ==
    IF Len(s) > 0 /\ IsSpace(Char(s, Len(s))) THEN trimEnd(SubSeq(s, 1, Len(s) - 1)) ELSE s

\* String.prototype.trim
trim(s) == trimEnd(trimStart(s))

\* a JavaScript value that is a string or undefined
Undefined == [present |-> FALSE, text |-> ""]
Str(s) == [present |-> TRUE, text |-> s]

\* JavaScript falsiness of such a value: undefined and "" are falsy
Falsy(v) == ~v.present \/ v.text = ""

(***************************************************************************)
(* The category set and the two class versions.                            *)
(***************************************************************************)
Variants == {"category", "points"}

validCategories ==
    <<"plastic", "paper", "glass", "metal", "organic", "hazardous", "unknown">>

\* keys of this.pointsMultipliers, thousandths of a point per gram
pointsMultipliers ==
    [metal |-> 30, plastic |-> 20, glass |-> 15, paper |-> 10,
     organic |-> 5, hazardous |-> 0, unknown |-> 0]

Range(seq) == {seq[i] : i \in 1..Len(seq)}

\* Object.entries(categoryKeywords) of the category version, in insertion order
categoryKeywordsA ==
    << <<"paper", <<"paper", "cardboard", "newspaper", "magazine", "book",
                    "receipt", "tissue", "toilet paper", "napkin", "document",
                    "envelope", "pizza box", "cereal box", "milk carton",
                    "egg carton">> >>,
       <<"plastic", <<"plastic", "bottle", "container", "bag", "packaging",
                      "wrapper", "cup", "straw", "utensil", "water bottle",
                      "soda bottle", "yogurt container", "takeout container",
                      "plastic bag", "bubble wrap", "styrofoam">> >>,
       <<"glass", <<"glass", "jar", "bottle glass", "window", "mirror",
                    "glassware", "wine bottle", "beer bottle", "jam jar",
                    "pickle jar", "glass container">> >>,
       <<"metal", <<"metal", "aluminum", "can", "tin", "steel", "copper",
                    "iron", "foil", "soda can", "beer can", "food can",
                    "aluminum foil", "metal lid", "bottle cap">> >>,
       <<"organic", <<"organic", "food", "fruit", "vegetable", "compost",
                      "biodegradable", "apple", "banana", "waste food",
                      "food scraps", "peel", "core", "leftovers",
                      "coffee grounds", "tea bag">> >>,
       <<"hazardous", <<"battery", "electronic", "chemical", "paint", "toxic",
                        "dangerous", "hazardous", "medical", "phone",
                        "computer", "lightbulb", "motor oil",
                        "cleaning product">> >> >>

\* Object.entries(categoryKeywords) of the points version, in insertion order
categoryKeywordsB ==
    << <<"paper", <<"paper", "cardboard", "newspaper", "magazine", "book",
                    "receipt", "tissue", "toilet paper", "napkin", "document">> >>,
       <<"plastic", <<"plastic", "bottle", "container", "bag", "packaging",
                      "wrapper", "cup", "straw", "utensil">> >>,
       <<"glass", <<"glass", "jar", "bottle glass", "window", "mirror",
                    "glassware">> >>,
       <<"metal", <<"metal", "aluminum", "can", "tin", "steel", "copper",
                    "iron", "foil">> >>,
       <<"organic", <<"organic", "food", "fruit", "vegetable", "compost",
                      "biodegradable", "apple", "banana", "waste food">> >>,
       <<"hazardous", <<"battery", "electronic", "chemical", "paint", "toxic",
                        "dangerous", "hazardous", "medical">> >> >>

\* the tables with the entries of paper and plastic exchanged
categoryKeywords_plasticFirst(v) ==
    LET t == IF v = "category" THEN categoryKeywordsA ELSE categoryKeywordsB
    IN  <<t[2], t[1]>> \o SubSeq(t, 3, Len(t))

categoryKeywords(v) == IF v = "category" THEN categoryKeywordsA ELSE categoryKeywordsB

\* the direct-match test: validCategories.includes(aiResponse) in the category
\* version, this.pointsMultipliers.hasOwnProperty(aiResponse) in the points one
isDirectMatch(v, s) ==
    IF v = "category" THEN s \in Range(validCategories)
    ELSE s \in DOMAIN pointsMultipliers

\* keywords.some(keyword => aiResponse.includes(keyword))
someKeyword(keywords, s) == \E j \in 1..Len(keywords) : includes(s, keywords[j])

\* the loop without the final return 'unknown': the function then returns
\* undefined, which is falsy like ""
RECURSIVE keywordLoop_noDefault(_, _, _)
keywordLoop_noDefault(entries, i, s) ==
    IF i > Len(entries) THEN [category |-> "", via |-> "default"]
    ELSE IF someKeyword(entries[i][2], s)
         THEN [category |-> entries[i][1], via |-> "keyword"]
         ELSE keywordLoop_noDefault(entries, i + 1, s)

\* the for...of loop over Object.entries(categoryKeywords), from entry i on;
\* falls through to the default 'unknown'
RECURSIVE keywordLoop(_, _, _)
keywordLoop(entries, i, s) ==
    IF i > Len(entries) THEN [category |-> "unknown", via |-> "default"]
    ELSE IF someKeyword(entries[i][2], s)
         THEN [category |-> entries[i][1], via |-> "keyword"]
         ELSE keywordLoop(entries, i + 1, s)

\* mapToCategory without its direct-match step
mapToCategory_noDirectMatch(v, aiResponse) ==
    IF Falsy(aiResponse) THEN [category |-> "plastic", via |-> "empty"]
    ELSE keywordLoop(categoryKeywords(v), 1, aiResponse.text)

\* mapToCategory(aiResponse): the category returned and the return statement
\* that produced it (via: "empty", "direct", "keyword" or "default")
mapToCategory(v, aiResponse) ==
    IF Falsy(aiResponse) THEN [category |-> "plastic", via |-> "empty"]
    ELSE IF isDirectMatch(v, aiResponse.text)
         THEN [category |-> aiResponse.text, via |-> "direct"]
         ELSE keywordLoop(categoryKeywords(v), 1, aiResponse.text)

(***************************************************************************)
(* Point arithmetic.  Weights are in tenths of a gram (WeightScale per     *)
(* gram), multipliers in thousandths of a point per gram, so the product   *)
(* weight * multiplier is in units of 1/10000 point and points * 10 is     *)
(* product / 1000.                                                         *)
(***************************************************************************)
WeightScale == 10

Grams(g) == g * WeightScale

\* this.pointsMultipliers[category] || 0
multiplierOf(category) ==
    IF category \in DOMAIN pointsMultipliers THEN pointsMultipliers[category] ELSE 0

\* IEEE-754 binary64: the <<category, weight>> pairs, for weights from -200 g
\* to 500 g in tenths of a gram, at which weight * multiplier * 10 is an exact
\* half in real arithmetic while the double product lies just below it, so
\* that Math.round yields the lower integer.  At every other weight in that
\* range the double computation and the exact one round alike.
doubleBelowHalf ==
    {<<"metal", 450>>, <<"metal", 1550>>, <<"metal", 2050>>, <<"metal", 2850>>,
     <<"metal", 3350>>, <<"metal", 3850>>,
     <<"glass", 900>>, <<"glass", 3100>>, <<"glass", 4100>>,
     <<"plastic", -1525>>, <<"plastic", -1275>>, <<"plastic", -575>>,
     <<"plastic", -175>>,
     <<"paper", -1150>>, <<"paper", -350>>,
     <<"organic", -700>>}

\* Math.floor in place of Math.round
mathRound10_floor(product) == product \div 1000

\* Math.round(points * 10) for points = product / 10000: the nearest integer,
\* halves going up (\div rounds down, as Math.floor does)
mathRound10(product) == (product + 500) \div 1000

\* the minimum applied whatever the multiplier
minimumFloor_anyMultiplier(weight, multiplier, product) ==
    IF weight > 0 /\ weight < Grams(5) /\ product < 1000 THEN 1000 ELSE product

\* no minimum at all
minimumFloor_none(weight, multiplier, product) == product

\* the minimum for items under 5 g: 0.1 point, i.e. a product of 1000
minimumFloor(weight, multiplier, product) ==
    IF weight > 0 /\ weight < Grams(5) /\ multiplier > 0 /\ product < 1000
    THEN 1000
    ELSE product

\* calculatePoints(weight, category), in tenths of a point.  The function has
\* no throw statement: it returns a number for every weight.
calculatePoints(weight, category) ==
    LET multiplier == multiplierOf(category)
        points == minimumFloor(weight, multiplier, weight * multiplier)
    IN  IF <<category, weight>> \in doubleBelowHalf
        THEN mathRound10(points) - 1
        ELSE mathRound10(points)

(***************************************************************************)
(* The classifier's methods.  An image is a JavaScript value               *)
(* [type, text]: type "string" (text is the string), "File" (a browser     *)
(* File, text is its base64 content), "object" (any other object, such as  *)
(* the file record multer puts in req.file) or "undefined".                *)
(***************************************************************************)
ImgUndefined == [type |-> "undefined", text |-> ""]
ImgString(s) == [type |-> "string", text |-> s]
ImgObject == [type |-> "object", text |-> ""]
ImgFile(content) == [type |-> "File", text |-> content]

\* JavaScript truthiness of an image value
Truthy(image) == image.type \in {"object", "File"} \/ (image.type = "string" /\ image.text # "")

\* prepareImage(image): a string resolves at once, a File resolves or rejects
\* when its FileReader finishes ("reading"), anything else throws (Error
\* 'Invalid image format', or a ReferenceError where File is not defined)
prepareImage(image) ==
    IF image.type = "string"
    THEN [kind |-> "resolved",
          url |-> IF startsWith(image.text, "data:") THEN image.text
                  ELSE "data:image/jpeg;base64," \o image.text]
    ELSE IF image.type = "File"
         THEN [kind |-> "reading", url |-> ""]
         ELSE [kind |-> "thrown", url |-> ""]

\* reader.result after readAsDataURL(image)
readAsDataURL(image) == "data:image/png;base64," \o image.text

\* the categories Math.random() picks from in the points version
randomCategories == <<"plastic", "paper", "glass", "metal", "organic">>

\* fallbackClassification(): 'plastic' in the category version,
\* categories[Math.floor(Math.random() * categories.length)] in the points
\* version, rnd being that index (from 1)
fallbackClassification(v, rnd) ==
    IF v = "category" THEN "plastic" ELSE randomCategories[rnd]

\* How the external call ended:
\*   networkError  fetch rejected
\*   nonOk         response.ok is false
\*   malformed     response.json() rejected, data.choices is missing, or the
\*                 content is not a string (a TypeError inside the try)
\*   noContent     data.choices[0]?.message?.content is undefined
\*   content       content is the string `text`
FailureKinds == {"networkError", "nonOk", "malformed"}

NoOutcome == [kind |-> "none", text |-> ""]

\* classifyImage(base64Image) once fetch has settled with `outcome`; its
\* try/catch leaves no way to throw
classifyImage(v, outcome, rnd) ==
    IF outcome.kind \in FailureKinds THEN fallbackClassification(v, rnd)
    ELSE IF outcome.kind = "noContent" THEN mapToCategory(v, Undefined).category
    ELSE mapToCategory(v, Str(trim(toLowerCase(outcome.text)))).category

\* A weight argument: null (not supplied), a number, or a numeric string as a
\* form field delivers it; val in tenths of a gram
NoWeight == [type |-> "null", val |-> 0]
NumWeight(n) == [type |-> "number", val |-> n]
StrWeight(n) == [type |-> "string", val |-> n]

\* JavaScript falsiness of a weight: null and the number 0 (a non-empty
\* string, "0" included, is truthy)
weightFalsy(weight) == weight.type = "null" \/ (weight.type = "number" /\ weight.val = 0)

averageWeights ==
    [plastic |-> 50, paper |-> 25, glass |-> 200, metal |-> 30, organic |-> 100,
     hazardous |-> 50, unknown |-> 50]

\* estimateWeight(category): averageWeights[category] || 50, in tenths of a gram
estimateWeight(category) ==
    IF category \in DOMAIN averageWeights THEN Grams(averageWeights[category])
    ELSE Grams(50)

\* const finalWeight = weight || this.estimateWeight(category)
finalWeight(weight, category) ==
    IF weightFalsy(weight) THEN estimateWeight(category) ELSE weight.val

\* What a method call came to: nothing yet, a returned value or a raised
\* exception
NoReturn == [kind |-> "none", category |-> "", points |-> 0]
Returned(category, points) == [kind |-> "returned", category |-> category, points |-> points]
Raised == [kind |-> "raised", category |-> "", points |-> 0]

\* the try body of getCategory: prepared is "rejected" when prepareImage threw
\* or rejected, else the category classifyImage gave
getCategoryBody(prepared, category) ==
    IF prepared = "rejected" THEN Raised ELSE Returned(category, 0)

\* getCategory without its catch
getCategoryCatch_rethrow(completion) == completion

\* catch (error) { return 'unknown' } of getCategory
getCategoryCatch(completion) ==
    IF completion.kind = "raised" THEN Returned("unknown", 0) ELSE completion

getCategory(prepared, category) == getCategoryCatch(getCategoryBody(prepared, category))

\* the try body of getPoints
getPointsBody(prepared, category, weight) ==
    IF prepared = "rejected" THEN Raised
    ELSE Returned(category, calculatePoints(finalWeight(weight, category), category))

\* catch (error) { return 0 } of getPoints
getPointsCatch(completion) ==
    IF completion.kind = "raised" THEN Returned("", 0) ELSE completion

getPoints(prepared, category, weight) ==
    getPointsCatch(getPointsBody(prepared, category, weight))

(***************************************************************************)
(* The HTTP handlers app.post('/category') and app.post('/classify').      *)
(***************************************************************************)
HttpEntries == {"/category", "/classify"}
LibraryEntries == {"getCategory", "getPoints"}
CategoryEntries == {"/category", "getCategory"}
PointsEntries == {"/classify", "getPoints"}

NoHttp == [status |-> 0, category |-> "", points |-> 0]

\* imageData: req.file if there is one, else req.body.image
imageData(upload, bodyImage) == IF upload THEN ImgObject ELSE bodyImage

\* res.status(400).json(...) when neither req.file nor req.body.image is there
noImageProvided(entry) ==
    [status |-> 400, category |-> IF entry = "/category" THEN "unknown" ELSE "", points |-> 0]

\* the response a handler sends once the classifier call has completed:
\* res.json(...) with the value, or the handler's catch with status 500
respond(entry, completion) ==
    IF entry \notin HttpEntries THEN NoHttp
    ELSE IF completion.kind = "raised"
         THEN [status |-> 500,
               category |-> IF entry = "/category" THEN "unknown" ELSE "",
               points |-> 0]
         ELSE [status |-> 200,
               category |-> IF entry = "/category" THEN completion.category ELSE "",
               points |-> IF entry = "/classify" THEN completion.points ELSE 0]

\* the classifier method an entry point runs
method(entry, prepared, category, weight) ==
    IF entry \in CategoryEntries THEN getCategory(prepared, category)
    ELSE getPoints(prepared, category, weight)

(***************************************************************************)
(* State.                                                                  *)
(*   map*  : one call of mapToCategory (label in, category out) and a      *)
(*           second call on the category the first returned (mapAgain)     *)
(*   pts*  : one call of calculatePoints (weight, category in, points out) *)
(*   variant : the class version the shared classifier instance is of      *)
(*   req   : the requests in progress, by request id; for each its         *)
(*           position (pc), entry point, arguments, the URL given to the   *)
(*           external call, the number of external calls made, how the     *)
(*           call ended, what the classifier method came to (ret) and the  *)
(*           HTTP response (http)                                          *)
(***************************************************************************)
VARIABLES mapVariant, mapLabel, mapResult, mapAgain, mapPc,
          ptsWeight, ptsCategory, ptsResult, ptsPc,
          variant, req

mapVars == <<mapVariant, mapLabel, mapResult, mapAgain, mapPc>>
ptsVars == <<ptsWeight, ptsCategory, ptsResult, ptsPc>>
reqVars == <<variant, req>>
vars == <<mapVariant, mapLabel, mapResult, mapAgain, mapPc,
          ptsWeight, ptsCategory, ptsResult, ptsPc,
          variant, req>>

NoResult == [category |-> "", via |-> ""]

(***************************************************************************)
(* Inputs of mapToCategory: phrases of up to MaxWords words, every keyword *)
(* of either table, the empty string and undefined.                        *)
(***************************************************************************)
MaxWords == 2

Vocabulary ==
    {"plastic", "paper", "glass", "metal", "organic", "hazardous", "unknown",
     "bottle", "bag", "can", "cap", "tea", "wine", "container", "jar", "rock",
     "battery", "foil", "envelope", "phone"}

RECURSIVE Phrases(_)
Phrases(n) ==
    IF n <= 1 THEN Vocabulary
    ELSE Phrases(n - 1) \cup {p \o " " \o w : p \in Phrases(n - 1), w \in Vocabulary}

KeywordsOfTable(entries) ==
    UNION {Range(entries[i][2]) : i \in 1..Len(entries)}

AllKeywords == KeywordsOfTable(categoryKeywordsA) \cup KeywordsOfTable(categoryKeywordsB)

LabelInputs ==
    {Str(s) : s \in Phrases(MaxWords) \cup AllKeywords \cup {""}} \cup {Undefined}

MapIdle ==
    /\ mapVariant = "category"
    /\ mapLabel = Undefined
    /\ mapResult = NoResult
    /\ mapAgain = NoResult
    /\ mapPc = "idle"

PtsIdle ==
    /\ ptsWeight = 0
    /\ ptsCategory = "unknown"
    /\ ptsResult = 0
    /\ ptsPc = "idle"

IdleRequest ==
    [pc |-> "idle", entry |-> "", upload |-> FALSE, image |-> ImgUndefined,
     weight |-> NoWeight, prepared |-> "none", url |-> "", fetches |-> 0,
     outcome |-> NoOutcome, ret |-> NoReturn, http |-> NoHttp]

ReqIdle ==
    /\ variant = "category"
    /\ req = [r \in {1} |-> IdleRequest]

MapInit ==
    /\ mapVariant \in Variants
    /\ mapLabel \in LabelInputs
    /\ mapResult = NoResult
    /\ mapAgain = NoResult
    /\ mapPc = "call"
    /\ PtsIdle
    /\ ReqIdle

\* one call classifier.mapToCategory(mapLabel)
MapCall ==
    /\ mapPc = "call"
    /\ mapResult' = mapToCategory(mapVariant, mapLabel)
    /\ mapPc' = "done"
    /\ UNCHANGED <<mapVariant, mapLabel, mapAgain>>
    /\ UNCHANGED <<ptsVars, reqVars>>

\* a second call, classifier.mapToCategory(category), on the value the first
\* call returned
MapAgain ==
    /\ mapPc = "done"
    /\ mapAgain' = mapToCategory(mapVariant, Str(mapResult.category))
    /\ mapPc' = "redone"
    /\ UNCHANGED <<mapVariant, mapLabel, mapResult>>
    /\ UNCHANGED <<ptsVars, reqVars>>

MapNext == MapCall \/ MapAgain

SpecMap == MapInit /\ [][MapNext]_vars

(***************************************************************************)
(* Claims about mapToCategory (checked under SpecMap).                     *)
(***************************************************************************)
CanonicalNames ==
    {"plastic", "paper", "glass", "metal", "organic", "hazardous", "unknown"}

\* the priority order the claims state
PriorityOrder == <<"paper", "plastic", "glass", "metal", "organic", "hazardous">>

\* the keywords listed under category c in the table of version v
KeywordsUnder(v, c) ==
    UNION {Range(categoryKeywords(v)[i][2]) :
             i \in {j \in 1..Len(categoryKeywords(v)) : categoryKeywords(v)[j][1] = c}}

\* the label s contains some keyword listed under c
LabelHits(v, c, s) == \E k \in KeywordsUnder(v, c) : includes(s, k)

MapDoneKeywordCase ==
    /\ mapPc = "done"
    /\ mapLabel.present
    /\ mapLabel.text # ""
    /\ mapLabel.text \notin CanonicalNames

\* C3: for every non-empty label that is not a canonical category name,
\* mapToCategory returns the first category in the order paper, plastic,
\* glass, metal, organic, hazardous that has a keyword occurring in the label
\* as a substring, and unknown when no category has one.
C3_FirstCategoryInOrder ==
    MapDoneKeywordCase =>
        LET hits == {i \in 1..Len(PriorityOrder) :
                        LabelHits(mapVariant, PriorityOrder[i], mapLabel.text)}
        IN  IF hits = {} THEN mapResult.category = "unknown"
            ELSE mapResult.category =
                   PriorityOrder[CHOOSE i \in hits : \A j \in hits : i <= j]

\* a label holding a glass keyword and a plastic keyword resolved to plastic,
\* the earlier of the two in the order
C3_Witness ==
    /\ mapPc = "done"
    /\ mapLabel = Str("glass bottle")
    /\ mapResult.category = "plastic"

\* C4: each of the seven canonical category names, given as the exact label,
\* is returned unchanged by the direct-match step, without the keyword table
\* being consulted.
C4_CanonicalUnchanged ==
    (mapPc = "done" /\ mapLabel.present /\ mapLabel.text \in CanonicalNames) =>
        /\ mapResult.category = mapLabel.text
        /\ mapResult.via = "direct"

C4_Witness ==
    /\ mapPc = "done"
    /\ mapLabel = Str("unknown")
    /\ mapResult = [category |-> "unknown", via |-> "direct"]

\* C11: mapToCategory is idempotent: for every label, the empty and the
\* absent one included, mapping the returned category again gives the same
\* category, because every value returned is a canonical category name that
\* the direct-match step returns unchanged.
C11_Idempotent ==
    /\ mapPc \in {"done", "redone"} => mapResult.category \in CanonicalNames
    /\ mapPc = "redone" =>
        /\ mapAgain.category = mapResult.category
        /\ mapAgain.via = "direct"

\* a label that no keyword matches went to unknown, and unknown to itself
C11_Witness ==
    /\ mapPc = "redone"
    /\ mapLabel = Str("rock")
    /\ mapResult.category = "unknown"
    /\ mapAgain = [category |-> "unknown", via |-> "direct"]

\* the categories under which the table of version v lists the keyword k
CategoriesListing(v, k) ==
    {categoryKeywords(v)[i][1] :
        i \in {j \in 1..Len(categoryKeywords(v)) : k \in Range(categoryKeywords(v)[j][2])}}

\* C13: for every keyword k listed under category X in the categoryKeywords
\* table, the label k alone resolves to X ('bottle cap' to metal, 'wine
\* bottle' and 'glass container' to glass, 'tea bag' to organic).
C13_KeywordResolvesToOwnCategory ==
    (mapPc = "done" /\ mapLabel.present) =>
        \A c \in CategoriesListing(mapVariant, mapLabel.text) : mapResult.category = c

(***************************************************************************)
(* One call of calculatePoints on a weight between MinWeight and MaxWeight *)
(* (tenths of a gram) and a category.  "wood" is a string that is not a    *)
(* key of pointsMultipliers.                                               *)
(***************************************************************************)
MaxWeight == 1200
MaxNegativeWeight == 200
MinWeight == 0 - MaxNegativeWeight

PointCategories == CanonicalNames \cup {"wood"}

PtsInit ==
    /\ ptsWeight \in MinWeight..MaxWeight
    /\ ptsCategory \in PointCategories
    /\ ptsResult = 0
    /\ ptsPc = "call"
    /\ MapIdle
    /\ ReqIdle

\* one call classifier.calculatePoints(ptsWeight, ptsCategory); it returns
PtsCall ==
    /\ ptsPc = "call"
    /\ ptsResult' = calculatePoints(ptsWeight, ptsCategory)
    /\ ptsPc' = "returned"
    /\ UNCHANGED <<ptsWeight, ptsCategory>>
    /\ UNCHANGED <<mapVars, reqVars>>

PtsNext == PtsCall

SpecPoints == PtsInit /\ [][PtsNext]_vars

(***************************************************************************)
(* Claims about calculatePoints (checked under SpecPoints).                *)
(***************************************************************************)
\* the multipliers the claims state, in points per gram times 1000
ClaimedMultiplier ==
    [metal |-> 30, plastic |-> 20, glass |-> 15, paper |-> 10, organic |-> 5,
     hazardous |-> 0, unknown |-> 0]

PositiveCategories == {"metal", "plastic", "glass", "paper", "organic"}

\* C7: calculatePoints rejects a negative weight as an input error for every
\* category: no point value is returned for a weight below zero.
C7_NegativeWeightRejected ==
    (ptsPc # "call" /\ ptsPc # "idle" /\ ptsWeight < 0) => ptsPc = "rejected"

\* C8: for hazardous and unknown, calculatePoints returns 0 for every
\* non-negative weight, weights with 0 < weight < 5 g included.
C8_ZeroMultiplierScoresZero ==
    (ptsPc = "returned" /\ ptsCategory \in {"hazardous", "unknown"} /\ ptsWeight >= 0)
        => ptsResult = 0

C8_Witness ==
    /\ ptsPc = "returned"
    /\ ptsCategory = "hazardous"
    /\ ptsWeight = Grams(2)
    /\ ptsResult = 0

\* C9: for every category with a positive multiplier and every weight with
\* 0 < weight < 5 g, calculatePoints returns exactly 0.1 (paper at 2 g, for
\* one); for weight 0 it returns 0.
C9_MinimumFloor ==
    (ptsPc = "returned" /\ ptsCategory \in PositiveCategories) =>
        /\ (ptsWeight > 0 /\ ptsWeight < Grams(5)) => ptsResult = 1
        /\ ptsWeight = 0 => ptsResult = 0

C9_Witness ==
    /\ ptsPc = "returned"
    /\ ptsCategory = "paper"
    /\ ptsWeight = Grams(2)
    /\ ptsResult = 1

Abs(x) == IF x < 0 THEN -x ELSE x

\* C10: for every category and every integer weight of 5 g or more,
\* calculatePoints returns weight times the category's multiplier rounded to
\* the nearest tenth (no tenth is nearer to the product than the result);
\* metal at 100 g gives 3.0.
C10_NearestTenth ==
    (/\ ptsPc = "returned"
     /\ ptsCategory \in DOMAIN ClaimedMultiplier
     /\ ptsWeight >= Grams(5)
     /\ ptsWeight % WeightScale = 0) =>
        /\ 2 * Abs(ptsResult * 1000 - ptsWeight * ClaimedMultiplier[ptsCategory]) <= 1000
        /\ (ptsCategory = "metal" /\ ptsWeight = Grams(100)) => ptsResult = 30

C10_Witness ==
    /\ ptsPc = "returned"
    /\ ptsCategory = "metal"
    /\ ptsWeight = Grams(100)
    /\ ptsResult = 30

(***************************************************************************)
(* Requests served by one classifier instance.                             *)
(***************************************************************************)
ImageStrings == {"data:image/png;base64,iVBOR", "iVBOR", ""}

\* what a caller of the class can pass as image
LibraryImages ==
    {ImgString(s) : s \in ImageStrings} \cup {ImgFile("iVBOR"), ImgObject, ImgUndefined}

\* what express.json() can put in req.body.image
BodyImages == {ImgString(s) : s \in ImageStrings} \cup {ImgObject, ImgUndefined}

Weights ==
    {NoWeight, NumWeight(0), NumWeight(Grams(-1)), NumWeight(Grams(2)),
     NumWeight(Grams(100)), StrWeight(0), StrWeight(Grams(50))}

RawLabels ==
    {"plastic", " Plastic\n", "PAPER", "Glass jar", "Aluminum Can", "a rock",
     "", "   ", "Unknown", "Tea Bag"}

Outcomes ==
    {[kind |-> k, text |-> ""] : k \in FailureKinds \cup {"noContent"}}
        \cup {[kind |-> "content", text |-> t] : t \in RawLabels}

Init ==
    /\ variant \in Variants
    /\ req = [r \in {1} |-> IdleRequest]
    /\ MapIdle
    /\ PtsIdle

\* the method returned or raised: record it and, for an HTTP entry, respond
Finished(q, completion) ==
    [q EXCEPT !.pc = "done", !.ret = completion, !.http = respond(q.entry, completion)]

\* fetch called a second time for the same request
FetchIssued_twice(q, url) ==
    [q EXCEPT !.pc = "fetching", !.prepared = "resolved", !.url = url,
              !.fetches = q.fetches + 2]

\* fetch(...) is called with the prepared URL; the request waits for it
FetchIssued(q, url) ==
    [q EXCEPT !.pc = "fetching", !.prepared = "resolved", !.url = url,
              !.fetches = q.fetches + 1]

\* the method of entry point q.entry starts on q.image: prepareImage runs
Started(q) ==
    LET p == prepareImage(q.image)
    IN  IF p.kind = "resolved" THEN FetchIssued(q, p.url)
        ELSE IF p.kind = "reading" THEN [q EXCEPT !.pc = "reading"]
        ELSE Finished([q EXCEPT !.prepared = "rejected"],
                      method(q.entry, "rejected", "", q.weight))

\* a caller invokes classifier.getCategory(image) or, on the points version,
\* classifier.getPoints(image, weight)
Call(r) ==
    /\ req[r].pc \in {"idle", "done"}
    /\ \E entry \in LibraryEntries, image \in LibraryImages, weight \in Weights :
        /\ entry = "getPoints" => variant = "points"
        /\ entry = "getCategory" => weight = NoWeight
        /\ req' = [req EXCEPT ![r] =
                     Started([IdleRequest EXCEPT !.entry = entry, !.image = image,
                                                 !.weight = weight])]
    /\ UNCHANGED <<variant, mapVars, ptsVars>>

\* the server receives POST /category or POST /classify, the request drawn
\* from the given entries, uploads, body images and weights
ReceiveFrom(r, entries, uploads, bodyImages, weights) ==
    /\ req[r].pc \in {"idle", "done"}
    /\ \E entry \in entries, upload \in uploads, bodyImage \in bodyImages,
          weight \in weights :
        /\ entry = "/category" => weight = NoWeight
        /\ LET q == [IdleRequest EXCEPT !.entry = entry, !.upload = upload,
                                        !.image = imageData(upload, bodyImage),
                                        !.weight = weight]
           IN  req' = [req EXCEPT ![r] =
                 IF ~upload /\ ~Truthy(bodyImage)
                 THEN [q EXCEPT !.pc = "done", !.http = noImageProvided(entry)]
                 ELSE IF entry = "/classify" /\ variant = "category"
                      \* classifier.getPoints is not a function: the TypeError
                      \* lands in the handler's catch
                      THEN [q EXCEPT !.pc = "done", !.http = respond(entry, Raised)]
                      ELSE Started(q)]
    /\ UNCHANGED <<variant, mapVars, ptsVars>>

\* the server receives POST /category or POST /classify
Receive(r) == ReceiveFrom(r, HttpEntries, BOOLEAN, BodyImages, Weights)

\* reader.onload: the promise of prepareImage resolves with reader.result
FileLoaded(r) ==
    /\ req[r].pc = "reading"
    /\ req' = [req EXCEPT ![r] = FetchIssued(req[r], readAsDataURL(req[r].image))]
    /\ UNCHANGED <<variant, mapVars, ptsVars>>

\* reader.onerror: the promise of prepareImage rejects
FileError(r) ==
    /\ req[r].pc = "reading"
    /\ req' = [req EXCEPT ![r] =
                 Finished([req[r] EXCEPT !.prepared = "rejected"],
                          method(req[r].entry, "rejected", "", req[r].weight))]
    /\ UNCHANGED <<variant, mapVars, ptsVars>>

\* the external call settles with one of the given outcomes; classifyImage
\* and its caller run to the end
FetchSettlesWith(r, outcomes) ==
    /\ req[r].pc = "fetching"
    /\ \E outcome \in outcomes, rnd \in 1..Len(randomCategories) :
        req' = [req EXCEPT ![r] =
                  Finished([req[r] EXCEPT !.outcome = outcome],
                           method(req[r].entry, "resolved",
                                  classifyImage(variant, outcome, rnd),
                                  req[r].weight))]
    /\ UNCHANGED <<variant, mapVars, ptsVars>>

\* the external call settles; classifyImage and its caller run to the end
FetchSettles(r) == FetchSettlesWith(r, Outcomes)

Next ==
    \/ \E r \in DOMAIN req : Call(r)
    \/ \E r \in DOMAIN req : Receive(r)
    \/ \E r \in DOMAIN req : FileLoaded(r)
    \/ \E r \in DOMAIN req : FileError(r)
    \/ \E r \in DOMAIN req : FetchSettles(r)

Spec == Init /\ [][Next]_vars

(***************************************************************************)
(* NumRequests requests in progress at once on the one classifier instance *)
(* of the server: their external calls settle in any order.                *)
(***************************************************************************)
NumRequests == 2

ConcBodyImages == {ImgString("iVBOR")}

ConcWeights == {NoWeight, NumWeight(Grams(2))}

ConcOutcomes ==
    {[kind |-> "networkError", text |-> ""],
     [kind |-> "content", text |-> "PAPER"],
     [kind |-> "content", text |-> "Glass jar"]}

ConcInit ==
    /\ variant \in Variants
    /\ req = [r \in 1..NumRequests |-> IdleRequest]
    /\ MapIdle
    /\ PtsIdle

ConcReceive(r) == ReceiveFrom(r, HttpEntries, BOOLEAN, ConcBodyImages, ConcWeights)

ConcFetchSettles(r) == FetchSettlesWith(r, ConcOutcomes)

ConcNext ==
    \/ \E r \in DOMAIN req : ConcReceive(r)
    \/ \E r \in DOMAIN req : ConcFetchSettles(r)

SpecConc == ConcInit /\ [][ConcNext]_vars

(***************************************************************************)
(* Claims about requests (checked under Spec).                             *)
(***************************************************************************)
\* the classifier method of request r was invoked and has completed
Completed(r) == req[r].pc = "done" /\ req[r].ret.kind # "none"

\* C1: for every image input (data-URI string, bare base64 string, File or
\* any other value) and every outcome of the external labeling call,
\* getCategory completes without raising and its result is one of the seven
\* categories.
C1_GetCategoryTotal ==
    \A r \in DOMAIN req :
        (Completed(r) /\ req[r].entry \in CategoryEntries) =>
            /\ req[r].ret.kind = "returned"
            /\ req[r].ret.category \in CanonicalNames

\* getCategory on a value that is neither a string nor a File came back
\* with a category
C1_Witness ==
    \E r \in DOMAIN req :
        /\ Completed(r)
        /\ req[r].entry = "getCategory"
        /\ req[r].image = ImgObject
        /\ req[r].ret = Returned("unknown", 0)

\* C2: when the external labeling call fails outright (network error,
\* non-success status or malformed body), classification returns the fixed
\* fallback category plastic, in both versions of the class.
C2_FallbackIsPlastic ==
    \A r \in DOMAIN req :
        (Completed(r) /\ req[r].outcome.kind \in FailureKinds) =>
            req[r].ret.category = "plastic"

\* C5: an image that is neither a string nor a File is rejected before any
\* external labeling call is made, and the rejection reaches the HTTP caller
\* as an explicit failure, not as a defaulted category or point value.
C5_InputErrorSurfaced ==
    \A r \in DOMAIN req :
        (/\ Completed(r)
         /\ req[r].entry \in HttpEntries
         /\ req[r].image.type \notin {"string", "File"}) =>
            /\ req[r].fetches = 0
            /\ req[r].http.status >= 400

\* C6: a request carrying a decoded binary upload (req.file) is accepted as
\* a string payload is: prepareImage succeeds and the external labeling call
\* is made.
C6_UploadAccepted ==
    \A r \in DOMAIN req :
        (Completed(r) /\ req[r].entry \in HttpEntries /\ req[r].upload) =>
            /\ req[r].prepared = "resolved"
            /\ req[r].fetches = 1

\* C14: getPoints substitutes the per-category default weight if and only
\* if no weight is supplied; every supplied weight, 0 included, is passed
\* unchanged to calculatePoints, so a supplied weight of 0 scores 0.
C14_DefaultOnlyWhenAbsent ==
    \A r \in DOMAIN req :
        (Completed(r) /\ req[r].entry \in PointsEntries /\ req[r].prepared = "resolved") =>
            LET category == req[r].ret.category
                used == IF req[r].weight = NoWeight
                        THEN Grams(averageWeights[category])
                        ELSE req[r].weight.val
            IN  /\ req[r].ret.points = calculatePoints(used, category)
                /\ (req[r].weight # NoWeight /\ req[r].weight.val = 0) =>
                       req[r].ret.points = 0

\* C15: each getCategory or getPoints request issues at most one external
\* labeling call: after a failed call the fallback category is returned at
\* once with no second call, and a request rejected by prepareImage issues
\* none.
C15_AtMostOneCall ==
    \A r \in DOMAIN req :
        /\ req[r].fetches <= 1
        /\ req[r].prepared = "rejected" => req[r].fetches = 0
        /\ (req[r].pc = "done" /\ req[r].outcome.kind \in FailureKinds) =>
               /\ req[r].fetches = 1
               /\ req[r].ret.kind = "returned"

\* a request whose one external call failed has its fallback result
C15_Witness ==
    \E r \in DOMAIN req :
        /\ Completed(r)
        /\ req[r].outcome.kind = "networkError"
        /\ req[r].fetches = 1
        /\ req[r].ret.kind = "returned"

(***************************************************************************)
(* Claims about concurrent requests (checked under SpecConc).              *)
(***************************************************************************)
\* what a request was given and how its own external call ended
OwnInputs(r) ==
    <<req[r].entry, req[r].upload, req[r].image, req[r].weight, req[r].outcome>>

\* C12: for N requests served concurrently by the shared classifier
\* instance, under every interleaving of their external-call completions,
\* each request's result depends only on its own image and its own
\* external-call outcome (it is the result the same request gets when run
\* alone): two requests with the same inputs and the same outcome have the
\* same result.
C12_ResultFromOwnInputs ==
    \A r1, r2 \in DOMAIN req :
        (Completed(r1) /\ Completed(r2) /\ OwnInputs(r1) = OwnInputs(r2)) =>
            /\ req[r1].ret = req[r2].ret
            /\ req[r1].http = req[r2].http

====
